---- MODULE Spec2Model ----
(***************************************************************************)
(* The upload pipeline of anarchic-image-hosting-bot (src/src/main.rs):    *)
(* the `upload` handler, `save_file`, `upload_to_telegram` and the shared  *)
(* tokio semaphore, for a fixed number of concurrent requests.             *)
(*                                                                         *)
(* Text (paths, URLs, log lines, response bodies) is a sequence of string  *)
(* atoms; format!() is concatenation of such sequences.  The multipart     *)
(* stream, the file system and the Telegram API are the environment: what  *)
(* each await point yields is chosen with \E from the outcomes the call    *)
(* can have.                                                               *)
(***************************************************************************)
EXTENDS Integers, Sequences, FiniteSets, TLC

VARIABLES
    permits,      \* free permits of UploadData.semaphore
    disk,         \* paths of the files that exist under C:/webtemp
    log,          \* the log records emitted so far
    pc,           \* per request: the await point / statement the task is at
    nparts,       \* per request: fields the multipart stream has yielded
    chunks,       \* per request: chunks written to the current part's file
    filepath,     \* per request: save_file's local `filepath` (current part)
    file_path,    \* per request: save_file's `file_path` / upload's `file_path`
    created,      \* per request: paths File::create made for this request
    save_result,  \* per request: what save_file returned
    held,         \* per request: TRUE while the task owns a SemaphorePermit
    acquires,     \* per request: completed semaphore.acquire() calls
    releases,     \* per request: permits given back
    sent,         \* per request: the platform's reply to send_photo
    calls,        \* per request: platform calls made, in order
    result,       \* per request: upload's `result` (of upload_to_telegram)
    removed,      \* per request: outcomes of the remove_file attempts, in order
    response      \* per request: the HttpResponse returned

vars == <<permits, disk, log, pc, nparts, chunks, filepath,
          file_path, created, save_result, held, acquires, releases, sent,
          calls, result, removed, response>>

----------------------------------------------------------------------------
(* Bounds of the model *)

\* Config.max_concurrent_uploads (K): read from the configuration file
max_concurrent_uploads == 1

\* parts one multipart body may carry
MaxParts == 2

\* chunks one part may carry
MaxChunks == 1

\* the concurrent requests of the general specification: more than K, so
\* that admission has to make a request wait
ConcurrentRequests == {1, 2}

\* the concurrent requests of the 2*K scenario
ScenarioRequests == 1..(2 * max_concurrent_uploads)

----------------------------------------------------------------------------
(* Values *)

\* Config.telegram_bot_token, as Bot::new keeps it and bot.token() returns it
telegram_bot_token == "SECRET-TOKEN"

ChatIdText == <<"ChatId(", "42", ")">>

\* String::new()
EmptyString == <<>>

\* a check of file_path.is_empty() that never fires
is_empty_never(s) == FALSE

is_empty(s) == Len(s) = 0

\* {:?} of a string-like value
Dbg(s) == <<"\"">> \o s \o <<"\"">>

\* client-supplied filenames, as sequences of characters
Filenames == { <<".", ".", "/", "a", ".", "png">> }

IllegalChars == {"/", "?", "<", ">", "\\", ":", "*", "|", "\""}

IsLegalChar(c) == c \notin IllegalChars

\* sanitize_filename::sanitize: illegal characters are removed; a name made
\* of dots only is reserved and becomes empty
sanitize(name) ==
    LET kept == SelectSeq(name, IsLegalChar)
    IN  IF \A i \in DOMAIN kept : kept[i] = "." THEN <<>> ELSE kept

\* Uuid::new_v4() of the n-th part of request r: distinct for distinct (r, n)
new_v4(r, n) == <<ToString(r), "-", ToString(n)>>

\* a staged path made of the client's file name alone
StagedPathNoId(r, n, name) == <<"C:/webtemp/">> \o sanitize(name)

\* format!("C:/webtemp/{}_{}", unique_id, sanitized_filename)
StagedPath(r, n, name) == <<"C:/webtemp/">> \o new_v4(r, n) \o <<"_">> \o sanitize(name)

\* what the multipart stream can yield as a field: one without
\* content-disposition, one whose content-disposition has no filename, or a
\* file part with a filename
Fields == {[kind |-> "no_content_disposition", name |-> <<>>],
           [kind |-> "no_filename", name |-> <<>>]}
          \cup {[kind |-> "file", name |-> f] : f \in Filenames}

\* the photo size variants a successful send_photo reply can carry
PhotoLists == { <<>>, <<"small">>, <<"small", "large">>, <<"large", "small">> }

\* replies of bot.send_photo: a request error, a message without photo, or
\* a message with a list of size variants
SendReplies == {[kind |-> "error", list |-> <<>>],
                [kind |-> "no_photo", list |-> <<>>]}
               \cup {[kind |-> "photo", list |-> l] : l \in PhotoLists}

NoReply == [kind |-> "none", list |-> <<>>]

\* the path the platform resolves for a file id (bot.get_file(id).path)
PlatformPath(file_id) == <<"photos/", file_id>>

\* format!("https://api.telegram.org/file/bot{}/{}", bot.token(), file_path)
FileUrl(token, path) == <<"https://api.telegram.org/file/bot", token, "/">> \o path

Rec(level, text) == [level |-> level, text |-> text]

\* Result<_, _> values; NoResult while the call has not returned
Ok(v) == [kind |-> "ok", val |-> v]
Err(e) == [kind |-> "err", val |-> e]
NoResult == [kind |-> "none", val |-> <<>>]

\* the errors save_file and upload_to_telegram return, as their {:?} text
MultipartItemError == <<"MultipartError", "(item)">>
MultipartChunkError == <<"MultipartError", "(chunk)">>
CreateError == <<"io::Error", "(create)">>
WriteError == <<"io::Error", "(write_all)">>
EmptyUpload == Dbg(<<"File path is empty">>)
NoMediaInResponse == Dbg(<<"No photo in response">>)
EmptyMediaSet == Dbg(<<"Photo array is empty">>)
UpstreamError == <<"RequestError">>
RemoveError(outcome) == <<"io::Error", "(remove_file: ", outcome, ")">>

NoResponse == [status |-> 0, body |-> <<>>]

\* HttpResponse::Ok().body(..) / HttpResponse::InternalServerError().body(..)
HttpOk(body) == [status |-> 200, body |-> body]
HttpInternalServerError(body) == [status |-> 500, body |-> body]

----------------------------------------------------------------------------
(* State after main() has built UploadData and the server accepts requests *)

Requests == DOMAIN pc

\* impl Debug for Config: only max_concurrent_uploads is printed
ConfigDebug == <<"Config { max_concurrent_uploads: ", ToString(max_concurrent_uploads), " }">>

\* main(): logger, read_config, Semaphore::new(config.max_concurrent_uploads)
InitFor(R) ==
    /\ permits = max_concurrent_uploads
    /\ disk = {}
    /\ log = { Rec("info", <<"Starting server...">>),
               Rec("debug", <<"Configuration loaded: ">> \o ConfigDebug) }
    /\ pc = [r \in R |-> "start"]
    /\ nparts = [r \in R |-> 0]
    /\ chunks = [r \in R |-> 0]
    /\ filepath = [r \in R |-> EmptyString]
    /\ file_path = [r \in R |-> EmptyString]
    /\ created = [r \in R |-> {}]
    /\ save_result = [r \in R |-> NoResult]
    /\ held = [r \in R |-> FALSE]
    /\ acquires = [r \in R |-> 0]
    /\ releases = [r \in R |-> 0]
    /\ sent = [r \in R |-> NoReply]
    /\ calls = [r \in R |-> <<>>]
    /\ result = [r \in R |-> NoResult]
    /\ removed = [r \in R |-> <<>>]
    /\ response = [r \in R |-> NoResponse]

Init == InitFor(ConcurrentRequests)

Emit(records) == log' = log \cup records

----------------------------------------------------------------------------
(* save_file *)

stagingVars == <<nparts, chunks, filepath, file_path, created, save_result>>
permitVars == <<permits, held, acquires, releases>>
forwardVars == <<sent, calls, result>>

\* upload, lines 101-107: the handler starts and calls save_file
UploadStart(r) ==
    /\ pc[r] = "start"
    /\ pc' = [pc EXCEPT ![r] = "payload_next"]
    /\ Emit({Rec("debug", <<"Starting upload process for chat ID: ">> \o ChatIdText)})
    /\ UNCHANGED <<disk, stagingVars, permitVars, forwardVars, removed, response>>

\* payload.next() yields None: the loop ends; an empty file_path is the
\* "File path is empty" error, otherwise save_file returns Ok(file_path) and
\* upload goes on to semaphore.acquire()
PayloadEnd(r) ==
    /\ pc[r] = "payload_next"
    /\ IF is_empty(file_path[r])
       THEN /\ save_result' = [save_result EXCEPT ![r] = Err(EmptyUpload)]
            /\ pc' = [pc EXCEPT ![r] = "save_failed"]
            /\ Emit({Rec("error", <<"File path is empty, failed to save file">>)})
       ELSE /\ save_result' = [save_result EXCEPT ![r] = Ok(file_path[r])]
            /\ pc' = [pc EXCEPT ![r] = "acquire"]
            /\ Emit({Rec("debug", <<"File saved locally at: ">> \o Dbg(file_path[r]))})
    /\ UNCHANGED <<disk, nparts, chunks, filepath, file_path, created,
                   permitVars, forwardVars, removed, response>>

\* payload.next() yields Some(Err(e)): `item?` returns the error
PayloadError(r) ==
    /\ pc[r] = "payload_next"
    /\ save_result' = [save_result EXCEPT ![r] = Err(MultipartItemError)]
    /\ pc' = [pc EXCEPT ![r] = "save_failed"]
    /\ UNCHANGED <<disk, log, nparts, chunks, filepath, file_path, created,
                   permitVars, forwardVars, removed, response>>

\* payload.next() yields a field on which content_disposition().unwrap() or
\* get_filename().unwrap() panics
FieldUnwrapPanics(r, field) ==
    /\ pc[r] = "payload_next"
    /\ nparts[r] < MaxParts
    /\ field.kind \in {"no_content_disposition", "no_filename"}
    /\ nparts' = [nparts EXCEPT ![r] = @ + 1]
    /\ pc' = [pc EXCEPT ![r] = "panicked"]
    /\ UNCHANGED <<disk, log, chunks, filepath, file_path, created,
                   save_result, permitVars, forwardVars, removed, response>>

\* payload.next() yields a file part: the unique path is built and
\* File::create(&filepath) is called; create_ok is whether it succeeds
FieldCreate(r, field, create_ok) ==
    /\ pc[r] = "payload_next"
    /\ nparts[r] < MaxParts
    /\ field.kind = "file"
    /\ nparts' = [nparts EXCEPT ![r] = @ + 1]
    /\ LET path == StagedPath(r, nparts[r] + 1, field.name)
           received == Rec("debug", <<"Received file: ">> \o Dbg(field.name))
       IN  IF create_ok
           THEN /\ disk' = disk \cup {path}
                /\ created' = [created EXCEPT ![r] = @ \cup {path}]
                /\ filepath' = [filepath EXCEPT ![r] = path]
                /\ chunks' = [chunks EXCEPT ![r] = 0]
                /\ pc' = [pc EXCEPT ![r] = "field_next"]
                /\ Emit({received})
                /\ UNCHANGED save_result
           ELSE /\ save_result' = [save_result EXCEPT ![r] = Err(CreateError)]
                /\ pc' = [pc EXCEPT ![r] = "save_failed"]
                /\ Emit({received,
                         Rec("error", <<"Failed to create file: ">> \o CreateError)})
                /\ UNCHANGED <<disk, created, filepath, chunks>>
    /\ UNCHANGED <<file_path, permitVars, forwardVars, removed, response>>

\* field.next() yields a chunk and f.write_all(&data) is called; write_ok is
\* whether it succeeds.  On failure the error is returned as it is: the
\* created file is left where it is
ChunkWrite(r, write_ok) ==
    /\ pc[r] = "field_next"
    /\ chunks[r] < MaxChunks
    /\ IF write_ok
       THEN /\ chunks' = [chunks EXCEPT ![r] = @ + 1]
            /\ UNCHANGED <<pc, save_result>>
       ELSE /\ save_result' = [save_result EXCEPT ![r] = Err(WriteError)]
            /\ pc' = [pc EXCEPT ![r] = "save_failed"]
            /\ chunks' = [chunks EXCEPT ![r] = 0]
    /\ UNCHANGED <<disk, log, nparts, filepath, file_path, created,
                   permitVars, forwardVars, removed, response>>

\* field.next() yields Some(Err(e)): `chunk?` returns the error, the created
\* file is left where it is
ChunkError(r) ==
    /\ pc[r] = "field_next"
    /\ save_result' = [save_result EXCEPT ![r] = Err(MultipartChunkError)]
    /\ pc' = [pc EXCEPT ![r] = "save_failed"]
    /\ chunks' = [chunks EXCEPT ![r] = 0]
    /\ UNCHANGED <<disk, log, nparts, filepath, file_path, created,
                   permitVars, forwardVars, removed, response>>

\* field.next() yields None: the part is complete, file_path = filepath
FieldEnd(r) ==
    /\ pc[r] = "field_next"
    /\ file_path' = [file_path EXCEPT ![r] = filepath[r]]
    /\ chunks' = [chunks EXCEPT ![r] = 0]
    /\ pc' = [pc EXCEPT ![r] = "payload_next"]
    /\ Emit({Rec("info", <<"File created successfully: ">> \o Dbg(filepath[r]))})
    /\ UNCHANGED <<disk, nparts, filepath, created, save_result,
                   permitVars, forwardVars, removed, response>>

----------------------------------------------------------------------------
(* upload: admission, upload_to_telegram, release, cleanup, response *)

\* an admission that does not wait for a free permit
CanAcquireAlways == TRUE

\* an admission that hands out one permit more than there are
CanAcquireOverdraw == permits > -1

\* tokio Semaphore::acquire completes only while a permit is free
CanAcquire == permits > 0

\* data.semaphore.acquire().await returns a permit; upload_to_telegram is
\* entered and bot.send_photo(..) is issued
Acquire(r) ==
    /\ pc[r] = "acquire"
    /\ CanAcquire
    /\ permits' = permits - 1
    /\ held' = [held EXCEPT ![r] = TRUE]
    /\ acquires' = [acquires EXCEPT ![r] = @ + 1]
    /\ calls' = [calls EXCEPT ![r] = Append(@, "send_photo")]
    /\ pc' = [pc EXCEPT ![r] = "send_photo"]
    /\ Emit({Rec("debug", <<"Uploading file: ">> \o Dbg(file_path[r])
                           \o <<" to Telegram chat: ">> \o ChatIdText)})
    /\ UNCHANGED <<disk, stagingVars, releases, sent, result, removed, response>>

\* a selection that takes the first size variant instead of the last
FirstPhoto(reply) ==
    IF reply.kind = "error" THEN Err(UpstreamError)
    ELSE IF reply.kind = "no_photo" THEN Err(NoMediaInResponse)
    ELSE IF Len(reply.list) = 0 THEN Err(EmptyMediaSet)
    ELSE Ok(<<reply.list[1]>>)

\* a selection that reports an empty list like an absent one
LastPhotoOneError(reply) ==
    IF reply.kind = "error" THEN Err(UpstreamError)
    ELSE IF reply.kind = "no_photo" \/ Len(reply.list) = 0 THEN Err(NoMediaInResponse)
    ELSE Ok(<<reply.list[Len(reply.list)]>>)

\* response.photo().ok_or(..)?.last().ok_or(..)?: the file id of the last
\* size variant, or the error
LastPhoto(reply) ==
    IF reply.kind = "error" THEN Err(UpstreamError)
    ELSE IF reply.kind = "no_photo" THEN Err(NoMediaInResponse)
    ELSE IF Len(reply.list) = 0 THEN Err(EmptyMediaSet)
    ELSE Ok(<<reply.list[Len(reply.list)]>>)

\* a handler that gives the permit back only when send_photo succeeded
SendPhotoErrorKeepsPermit(r, reply) ==
    /\ pc[r] = "send_photo"
    /\ sent' = [sent EXCEPT ![r] = reply]
    /\ LET file_id == LastPhoto(reply)
       IN  IF file_id.kind = "ok"
           THEN /\ calls' = [calls EXCEPT ![r] = Append(@, "get_file")]
                /\ pc' = [pc EXCEPT ![r] = "get_file"]
                /\ Emit({Rec("debug", <<"File uploaded to Telegram, received file ID: ">>
                                       \o Dbg(file_id.val))})
                /\ UNCHANGED result
           ELSE /\ result' = [result EXCEPT ![r] = file_id]
                /\ pc' = [pc EXCEPT ![r] = "remove_file"]
                /\ UNCHANGED <<calls, log>>
    /\ UNCHANGED <<disk, stagingVars, permitVars, removed, response>>

\* bot.send_photo(..).await returns `reply`: on an error upload_to_telegram
\* returns it, otherwise bot.get_file(&file_id) is issued
SendPhoto(r, reply) ==
    /\ pc[r] = "send_photo"
    /\ sent' = [sent EXCEPT ![r] = reply]
    /\ LET file_id == LastPhoto(reply)
       IN  IF file_id.kind = "ok"
           THEN /\ calls' = [calls EXCEPT ![r] = Append(@, "get_file")]
                /\ pc' = [pc EXCEPT ![r] = "get_file"]
                /\ Emit({Rec("debug", <<"File uploaded to Telegram, received file ID: ">>
                                       \o Dbg(file_id.val))})
                /\ UNCHANGED result
           ELSE /\ result' = [result EXCEPT ![r] = file_id]
                /\ pc' = [pc EXCEPT ![r] = "drop_permit"]
                /\ UNCHANGED <<calls, log>>
    /\ UNCHANGED <<disk, stagingVars, permitVars, removed, response>>

\* bot.get_file(&file_id).await returns: the error, or the path from which
\* the file URL is formatted, logged and returned
GetFile(r, get_ok) ==
    /\ pc[r] = "get_file"
    /\ IF get_ok
       THEN LET file_url == FileUrl(telegram_bot_token, PlatformPath(LastPhoto(sent[r]).val[1]))
            IN  /\ result' = [result EXCEPT ![r] = Ok(file_url)]
                /\ Emit({Rec("debug", <<"Generated file URL: ">> \o file_url)})
       ELSE /\ result' = [result EXCEPT ![r] = Err(UpstreamError)]
            /\ UNCHANGED log
    /\ pc' = [pc EXCEPT ![r] = "drop_permit"]
    /\ UNCHANGED <<disk, stagingVars, permitVars, sent, calls, removed, response>>

\* a handler that goes on without giving the permit back
DropPermitLeaks(r) ==
    /\ pc[r] = "drop_permit"
    /\ pc' = [pc EXCEPT ![r] = "remove_file"]
    /\ UNCHANGED <<disk, log, stagingVars, permitVars, forwardVars, removed, response>>

\* a release that gives back two permits
DropPermitTwice(r) ==
    /\ pc[r] = "drop_permit"
    /\ permits' = permits + 2
    /\ held' = [held EXCEPT ![r] = FALSE]
    /\ releases' = [releases EXCEPT ![r] = @ + 1]
    /\ pc' = [pc EXCEPT ![r] = "remove_file"]
    /\ UNCHANGED <<disk, log, stagingVars, acquires, forwardVars, removed, response>>

\* drop(permit)
DropPermit(r) ==
    /\ pc[r] = "drop_permit"
    /\ permits' = permits + 1
    /\ held' = [held EXCEPT ![r] = FALSE]
    /\ releases' = [releases EXCEPT ![r] = @ + 1]
    /\ pc' = [pc EXCEPT ![r] = "remove_file"]
    /\ UNCHANGED <<disk, log, stagingVars, acquires, forwardVars, removed, response>>

\* what std::fs::remove_file(path) can do: remove the file ("removed"), fail
\* and leave it ("failed"), or fail because the path does not exist any more,
\* the file having been removed from outside the program ("not_found")
RemoveOutcomes == {"removed", "failed", "not_found"}

\* a cleanup whose failure replaces the result of the forwarding step
RemoveFileOverridesResult(r, outcome) ==
    /\ pc[r] = "remove_file"
    /\ removed' = [removed EXCEPT ![r] = Append(@, outcome)]
    /\ disk' = IF outcome = "failed" THEN disk ELSE disk \ {file_path[r]}
    /\ IF outcome = "removed"
       THEN UNCHANGED <<log, result>>
       ELSE /\ Emit({Rec("error", <<"Failed to delete temporary file: ">>
                                  \o RemoveError(outcome))})
            /\ result' = [result EXCEPT ![r] = Err(RemoveError(outcome))]
    /\ pc' = [pc EXCEPT ![r] = "respond"]
    /\ UNCHANGED <<stagingVars, permitVars, sent, calls, response>>

\* std::fs::remove_file(path); an error is logged and otherwise ignored
RemoveFile(r, outcome) ==
    /\ pc[r] = "remove_file"
    /\ removed' = [removed EXCEPT ![r] = Append(@, outcome)]
    /\ disk' = IF outcome = "failed" THEN disk ELSE disk \ {file_path[r]}
    /\ IF outcome = "removed"
       THEN UNCHANGED log
       ELSE Emit({Rec("error", <<"Failed to delete temporary file: ">> \o RemoveError(outcome))})
    /\ pc' = [pc EXCEPT ![r] = "respond"]
    /\ UNCHANGED <<stagingVars, permitVars, forwardVars, response>>

\* a response that is 200 whatever the result
UploadResponseAlwaysOk(res) == HttpOk(res.val)

\* match result { Ok(url) => 200 with the URL, Err(e) => 500 with the error }
UploadResponse(res) ==
    IF res.kind = "ok"
    THEN HttpOk(res.val)
    ELSE HttpInternalServerError(<<"Failed to upload image: ">> \o res.val)

\* upload, lines 123-132: the response after forwarding
Respond(r) ==
    /\ pc[r] = "respond"
    /\ response' = [response EXCEPT ![r] = UploadResponse(result[r])]
    /\ IF result[r].kind = "ok"
       THEN Emit({Rec("debug", <<"Successfully uploaded image to Telegram, URL: ">>
                              \o result[r].val)})
       ELSE Emit({Rec("error", <<"Failed to upload image to Telegram: ">> \o result[r].val)})
    /\ pc' = [pc EXCEPT ![r] = "done"]
    /\ UNCHANGED <<disk, stagingVars, permitVars, forwardVars, removed>>

\* upload, lines 134-137: the response when save_file returned an error
RespondSaveError(r) ==
    /\ pc[r] = "save_failed"
    /\ response' = [response EXCEPT ![r] =
            HttpInternalServerError(<<"Failed to save file: ">> \o save_result[r].val)]
    /\ Emit({Rec("error", <<"Failed to save file: ">> \o save_result[r].val)})
    /\ pc' = [pc EXCEPT ![r] = "done"]
    /\ UNCHANGED <<disk, stagingVars, permitVars, forwardVars, removed>>

\* the await points of upload: a task is dropped only while suspended there
AwaitPoints == {"payload_next", "field_next", "acquire", "send_photo", "get_file"}

\* a dropped future whose permit is not a guard: the permit stays taken
AbortKeepsPermit(r) ==
    /\ pc[r] \in AwaitPoints
    /\ pc' = [pc EXCEPT ![r] = "aborted"]
    /\ UNCHANGED <<permits, held, releases>>
    /\ UNCHANGED <<disk, log, stagingVars, acquires, forwardVars, removed, response>>

\* the request's future is dropped at an await point (the client went away):
\* its locals are dropped, so a held SemaphorePermit goes back to the
\* semaphore; nothing else of the handler runs
Abort(r) ==
    /\ pc[r] \in AwaitPoints
    /\ pc' = [pc EXCEPT ![r] = "aborted"]
    /\ IF held[r]
       THEN /\ permits' = permits + 1
            /\ held' = [held EXCEPT ![r] = FALSE]
            /\ releases' = [releases EXCEPT ![r] = @ + 1]
       ELSE UNCHANGED <<permits, held, releases>>
    /\ UNCHANGED <<disk, log, stagingVars, acquires, forwardVars, removed, response>>

----------------------------------------------------------------------------
(* Specifications *)

Next ==
    \/ \E r \in Requests : UploadStart(r)
    \/ \E r \in Requests : PayloadEnd(r)
    \/ \E r \in Requests : PayloadError(r)
    \/ \E r \in Requests, field \in Fields : FieldUnwrapPanics(r, field)
    \/ \E r \in Requests, field \in Fields, create_ok \in BOOLEAN : FieldCreate(r, field, create_ok)
    \/ \E r \in Requests, write_ok \in BOOLEAN : ChunkWrite(r, write_ok)
    \/ \E r \in Requests : ChunkError(r)
    \/ \E r \in Requests : FieldEnd(r)
    \/ \E r \in Requests : Acquire(r)
    \/ \E r \in Requests, reply \in SendReplies : SendPhoto(r, reply)
    \/ \E r \in Requests, get_ok \in BOOLEAN : GetFile(r, get_ok)
    \/ \E r \in Requests : DropPermit(r)
    \/ \E r \in Requests, outcome \in RemoveOutcomes : RemoveFile(r, outcome)
    \/ \E r \in Requests : Respond(r)
    \/ \E r \in Requests : RespondSaveError(r)
    \/ \E r \in Requests : Abort(r)

Spec == Init /\ [][Next]_vars

\* The 2*K scenario: 2*K valid single-file requests that are not abandoned,
\* a disk that stages them and a platform that answers every call with
\* success; the runtime keeps polling every task that can make progress and
\* the semaphore hands a free permit to a waiter
LiveInit == InitFor(ScenarioRequests)

ValidFile == [kind |-> "file", name |-> CHOOSE f \in Filenames : TRUE]

TwoVariants == [kind |-> "photo", list |-> <<"small", "large">>]

ScenarioStep(r) ==
    \/ UploadStart(r)
    \/ nparts[r] = 1 /\ PayloadEnd(r)
    \/ nparts[r] = 0 /\ FieldCreate(r, ValidFile, TRUE)
    \/ ChunkWrite(r, TRUE)
    \/ FieldEnd(r)
    \/ Acquire(r)
    \/ SendPhoto(r, TwoVariants)
    \/ GetFile(r, TRUE)
    \/ DropPermit(r)
    \/ \E outcome \in {"removed", "failed"} : RemoveFile(r, outcome)
    \/ Respond(r)

LiveNext == \E r \in Requests : ScenarioStep(r)

LiveSpec ==
    /\ LiveInit
    /\ [][LiveNext]_vars
    /\ \A r \in ScenarioRequests : WF_vars(ScenarioStep(r))

----------------------------------------------------------------------------
(* Claims *)

\* the requests inside the forwarding step: past semaphore.acquire() and
\* not yet past drop(permit)
Forwarding == {r \in Requests : pc[r] \in {"send_photo", "get_file", "drop_permit"}}

\* the files created for request r that are on disk
StagedOnDisk(r) == created[r] \cap disk

\* C1: in every reachable state the number of requests inside the
\* forwarding step (between the semaphore acquire and the drop of the permit)
\* is at most max_concurrent_uploads.
C1_ForwardingBounded == Cardinality(Forwarding) <= max_concurrent_uploads

C1_Witness ==
    /\ Cardinality(Forwarding) = max_concurrent_uploads
    /\ \E r \in Requests : pc[r] = "acquire"

\* C2: a completed request whose body was a single file part (and whose
\* file could be created) has created exactly one staged file, and none of
\* the files created for it is left on disk, whichever step failed.
C2_NoStagedFileLeft ==
    \A r \in Requests :
        pc[r] = "done" /\ nparts[r] = 1 /\ save_result[r] # Err(CreateError)
        => /\ Cardinality(created[r]) = 1
           /\ StagedOnDisk(r) = {}

\* C3: a request whose staging succeeded has, when it has responded, exactly
\* one permit acquire paired with exactly one release and exactly one created
\* file paired with exactly one deletion attempt.
C3_PairedAcquireReleaseCreateDelete ==
    \A r \in Requests :
        pc[r] = "done" /\ save_result[r].kind = "ok"
        => /\ acquires[r] = 1
           /\ releases[r] = 1
           /\ Cardinality(created[r]) = 1
           /\ Len(removed[r]) = 1

\* C4: when save_file returns the error of a failed chunk read or write,
\* the file it had created for that part is no longer on disk.
C4_FailedStagingRemovesPartialFile ==
    \A r \in Requests :
        save_result[r] \in {Err(MultipartChunkError), Err(WriteError)}
        => filepath[r] \notin disk

\* C5: no log record contains the bot token, so the log does not depend on
\* the token's value.
C5_TokenNeverLogged ==
    \A rec \in log : \A i \in DOMAIN rec.text : rec.text[i] # telegram_bot_token

\* C6: the deletion step, failing or not, leaves the result of the
\* forwarding step as it is and does not crash the handler, and the response
\* is the success with the URL if forwarding returned a URL and the forwarding
\* error otherwise.
C6_DeletionNeverChangesResponse ==
    [][\A r \in Requests :
          pc[r] \in {"remove_file", "respond"}
          => /\ result'[r] = result[r]
             /\ pc'[r] \in {"remove_file", "respond", "done"}
             /\ pc'[r] = "done" =>
                  /\ result[r].kind = "ok" =>
                       response'[r] = [status |-> 200, body |-> result[r].val]
                  /\ result[r].kind = "err" =>
                       response'[r] = [status |-> 500,
                                       body |-> <<"Failed to upload image: ">>
                                                \o result[r].val]]_vars

C6_Witness ==
    /\ \E r \in Requests :
          /\ pc[r] = "done"
          /\ removed[r] = <<"not_found">>
          /\ result[r].kind = "ok"
          /\ response[r] = [status |-> 200, body |-> result[r].val]
    /\ \E r \in Requests :
          /\ pc[r] = "done"
          /\ removed[r] = <<"failed">>
          /\ result[r] = Err(NoMediaInResponse)
          /\ response[r].status = 500

\* C7: with 2*K valid requests against limit K, fair scheduling and a
\* platform that answers every call with success, every request is eventually
\* answered with status 200 and the file URL, having been admitted and
\* forwarded, and at no time are more than K requests forwarding.
C7_AllEventuallySucceed ==
    /\ \A r \in ScenarioRequests :
          <>(/\ pc[r] = "done"
             /\ response[r].status = 200
             /\ acquires[r] = 1
             /\ calls[r] = <<"send_photo", "get_file">>
             /\ result[r].kind = "ok"
             /\ response[r].body = result[r].val)
    /\ [](Cardinality(Forwarding) <= max_concurrent_uploads)

C7_Witness ==
    /\ Cardinality(Requests) = 2 * max_concurrent_uploads
    /\ \A r \in Requests : pc[r] = "done" /\ response[r].status = 200

\* C8: a request whose multipart stream ends without having yielded a part
\* gets the "File path is empty" failure response, and no file is created, no
\* permit acquired and no platform call made for it.
C8_EmptyBodyIsEmptyUpload ==
    \A r \in Requests :
        /\ nparts[r] = 0
        /\ pc[r] \notin {"start", "payload_next", "aborted"}
        /\ save_result[r] # Err(MultipartItemError)
        => /\ pc[r] \in {"save_failed", "done"}
           /\ save_result[r] = Err(<<"\"", "File path is empty", "\"">>)
           /\ created[r] = {}
           /\ acquires[r] = 0
           /\ calls[r] = <<>>
           /\ pc[r] = "done" =>
                response[r] = [status |-> 500,
                               body |-> <<"Failed to save file: ", "\"",
                                          "File path is empty", "\"">>]

C8_Witness ==
    \E r \in Requests :
        /\ pc[r] = "done"
        /\ nparts[r] = 0
        /\ save_result[r] = Err(EmptyUpload)
        /\ response[r].status = 500
        /\ disk = {}

\* C9: every successful call of save_file has created exactly one file on
\* disk, the one whose path it returns.
C9_OneFilePerSuccessfulSave ==
    \A r \in Requests :
        save_result[r].kind = "ok" => created[r] = {save_result[r].val}

\* C10: no request's handling panics, and every request that met an error
\* and completed has a failure response.
C10_ErrorsBecomeOneFailureResponse ==
    \A r \in Requests :
        /\ pc[r] # "panicked"
        /\ pc[r] = "done" /\ "err" \in {save_result[r].kind, result[r].kind}
           => response[r].status = 500

\* C11: a request has a response exactly when it has completed; the
\* response is status 200 with the resolved file URL as body if and only if
\* both save_file and upload_to_telegram succeeded, and status 500 with an
\* error description otherwise.
C11_ResponseMatchesOutcome ==
    \A r \in Requests :
        /\ pc[r] # "done" => response[r] = NoResponse
        /\ pc[r] = "done" =>
             LET succeeded == save_result[r].kind = "ok" /\ result[r].kind = "ok"
             IN  /\ response[r].status \in {200, 500}
                 /\ response[r].status = 200 <=> succeeded
                 /\ succeeded =>
                      /\ response[r].body = result[r].val
                      /\ response[r].body[1] = "https://api.telegram.org/file/bot"
                 /\ ~succeeded =>
                      /\ response[r].body[1] \in {"Failed to save file: ",
                                                  "Failed to upload image: "}
                      /\ Len(response[r].body) > 1

C11_Witness ==
    /\ \E r \in Requests : pc[r] = "done" /\ response[r].status = 200
    /\ \E r \in Requests :
          pc[r] = "done" /\ response[r].status = 500 /\ result[r].kind = "err"

\* C12: when send_photo's reply carries a non-empty list of size variants
\* and upload_to_telegram returns a URL, the URL is the URL template filled
\* with the token and the path the platform resolves for the reference of the
\* last variant of the list; for a two-variant list that is the second one.
C12_UrlFromLastVariant ==
    \A r \in Requests :
        sent[r].kind = "photo" /\ Len(sent[r].list) > 0 /\ result[r].kind = "ok"
        => LET list == sent[r].list
               url == result[r].val
           IN  /\ url = <<"https://api.telegram.org/file/bot", telegram_bot_token, "/">>
                         \o PlatformPath(list[Len(list)])
               /\ url[Len(url)] = list[Len(list)]
               /\ Len(list) = 2 => url[Len(url)] = list[2] /\ url[Len(url)] # list[1]

C12_Witness ==
    \E r \in Requests :
        /\ sent[r] = [kind |-> "photo", list |-> <<"small", "large">>]
        /\ result[r].kind = "ok"
        /\ result[r].val[Len(result[r].val)] = "large"

\* the staging succeeded and the platform's reply to send_photo had no media
NoMedia(r) ==
    \/ sent[r].kind = "no_photo"
    \/ sent[r].kind = "photo" /\ sent[r].list = <<>>

\* C13 as stated: with no media in the reply, forwarding fails with "No photo
\* in response" (list absent) or "Photo array is empty" (list empty), no
\* get_file call is made, and when the request has responded the permit is
\* released and the staged file is deleted.
C13_NoMediaFailsAndFileDeleted ==
    \A r \in Requests :
        NoMedia(r)
        => /\ sent[r].kind = "no_photo" => result[r] = Err(<<"\"", "No photo in response", "\"">>)
           /\ sent[r].kind = "photo" => result[r] = Err(<<"\"", "Photo array is empty", "\"">>)
           /\ calls[r] = <<"send_photo">>
           /\ pc[r] = "done" =>
                /\ releases[r] = 1 /\ ~held[r]
                /\ response[r].status = 500
                /\ file_path[r] \notin disk

\* C13 amended: as C13, but before the failure response the deletion of the
\* staged file has been attempted once, and the file is gone unless
\* remove_file itself failed.
C13_NoMediaFailsAndDeletionAttempted ==
    \A r \in Requests :
        NoMedia(r)
        => /\ sent[r].kind = "no_photo" => result[r] = Err(<<"\"", "No photo in response", "\"">>)
           /\ sent[r].kind = "photo" => result[r] = Err(<<"\"", "Photo array is empty", "\"">>)
           /\ calls[r] = <<"send_photo">>
           /\ pc[r] \in {"respond", "done"} =>
                /\ releases[r] = 1 /\ ~held[r]
                /\ Len(removed[r]) = 1
                /\ removed[r][1] # "failed" => file_path[r] \notin disk
           /\ pc[r] = "done" => response[r].status = 500

C13_Witness ==
    /\ \E r \in Requests :
          /\ pc[r] = "done" /\ sent[r].kind = "no_photo"
          /\ removed[r] = <<"removed">> /\ file_path[r] \notin disk
    /\ \E r \in Requests :
          /\ pc[r] = "done" /\ sent[r] = [kind |-> "photo", list |-> <<>>]
          /\ result[r] = Err(EmptyMediaSet)

\* C14: within one request the steps come in the order stage, acquire,
\* forward, release, delete, respond: nothing of admission, forwarding or
\* cleanup has happened while staging; the permit is acquired only after
\* save_file returned Ok; it is held exactly during forwarding and is given
\* back, whatever the result, before the deletion is attempted; the response
\* is built only after the deletion attempt.
C14_StepsInOrder ==
    \A r \in Requests :
        /\ held[r] <=> pc[r] \in {"send_photo", "get_file", "drop_permit"}
        /\ pc[r] \in {"start", "payload_next", "field_next", "save_failed", "panicked"}
           => /\ save_result[r].kind # "ok"
              /\ acquires[r] = 0 /\ releases[r] = 0
              /\ calls[r] = <<>> /\ result[r] = NoResult
              /\ removed[r] = <<>> /\ response[r] = NoResponse
        /\ pc[r] = "acquire"
           => /\ save_result[r].kind = "ok"
              /\ acquires[r] = 0 /\ releases[r] = 0
              /\ calls[r] = <<>> /\ result[r] = NoResult
              /\ removed[r] = <<>> /\ response[r] = NoResponse
        /\ pc[r] \in {"send_photo", "get_file", "drop_permit"}
           => /\ save_result[r].kind = "ok"
              /\ acquires[r] = 1 /\ releases[r] = 0
              /\ calls[r] # <<>>
              /\ pc[r] = "drop_permit" <=> result[r] # NoResult
              /\ removed[r] = <<>> /\ response[r] = NoResponse
        /\ pc[r] = "remove_file"
           => /\ acquires[r] = 1 /\ releases[r] = 1
              /\ result[r] # NoResult
              /\ removed[r] = <<>> /\ response[r] = NoResponse
        /\ pc[r] = "respond"
           => /\ acquires[r] = 1 /\ releases[r] = 1
              /\ result[r] # NoResult
              /\ Len(removed[r]) = 1 /\ response[r] = NoResponse
        /\ pc[r] = "done" /\ save_result[r].kind = "ok"
           => /\ acquires[r] = 1 /\ releases[r] = 1
              /\ result[r] # NoResult
              /\ Len(removed[r]) = 1 /\ response[r] # NoResponse

C14_Witness ==
    /\ \E r \in Requests :
          /\ pc[r] = "respond" /\ result[r].kind = "err"
          /\ releases[r] = 1 /\ Len(removed[r]) = 1
    /\ \E r \in Requests : pc[r] = "get_file" /\ held[r]

\* C15: when save_file returned an error the handler has acquired no
\* permit, made no platform call and attempted no deletion, none of the
\* files created for the request is on disk, and the response, once given, is
\* the 500 response carrying the staging error.
C15_FailedStagingLeavesNothing ==
    \A r \in Requests :
        save_result[r].kind = "err"
        => /\ acquires[r] = 0 /\ releases[r] = 0 /\ ~held[r]
           /\ calls[r] = <<>>
           /\ removed[r] = <<>>
           /\ StagedOnDisk(r) = {}
           /\ pc[r] = "done" =>
                response[r] = [status |-> 500,
                               body |-> <<"Failed to save file: ">> \o save_result[r].val]

\* the requests whose upstream call (send_photo or get_file) is pending
InUpstreamCall == {r \in Requests : pc[r] \in {"send_photo", "get_file"}}

\* C16: a request in an upstream call holds its permit, and in every step
\* in which K requests are and stay in upstream calls, a request waiting at
\* admission is not admitted: it stays waiting (or is abandoned), gets no
\* response, and its staged file stays on disk with no deletion attempted.
C16_HungCallsBlockAdmission ==
    [][/\ \A q \in InUpstreamCall : held[q]
       /\ ( /\ Cardinality(InUpstreamCall) = max_concurrent_uploads
            /\ \A q \in InUpstreamCall : pc'[q] \in {"send_photo", "get_file"} )
          => \A r \in Requests :
                pc[r] = "acquire"
                => /\ pc'[r] \in {"acquire", "aborted"}
                   /\ response'[r] = NoResponse
                   /\ removed'[r] = <<>>
                   /\ file_path[r] \in disk']_vars

C16_Witness ==
    /\ Cardinality(InUpstreamCall) = max_concurrent_uploads
    /\ permits = 0
    /\ \E r \in Requests :
          pc[r] = "acquire" /\ file_path[r] \in disk /\ response[r] = NoResponse

\* the steps between the end of a successful staging and the deletion step
StagedSteps == {"acquire", "send_photo", "get_file", "drop_permit", "remove_file"}

\* C17: with unique identifiers the paths created by two different requests
\* (which send the same client file name) are distinct; after every step a
\* request between the end of its staging and its own deletion step has its
\* staged file on disk; and a deletion step of one request removes its own
\* file when it succeeds and leaves the files of every other request as they
\* were.
C17_StagedFilesDoNotInterfere ==
    [][/\ \A r, q \in Requests : r # q => created'[r] \cap created'[q] = {}
       /\ \A r \in Requests : pc'[r] \in StagedSteps => file_path'[r] \in disk'
       /\ \A r \in Requests :
            pc[r] = "remove_file" /\ pc'[r] = "respond"
            => /\ file_path[r] \in disk
               /\ removed'[r][1] = "removed" => file_path[r] \notin disk'
               /\ \A q \in Requests \ {r} :
                    created'[q] \cap disk' = created[q] \cap disk]_vars

C17_Witness ==
    \E r, q \in Requests :
        /\ r # q
        /\ pc[r] \in {"respond", "done"}
        /\ removed[r] = <<"removed">>
        /\ file_path[r] \notin disk
        /\ pc[q] \in StagedSteps
        /\ file_path[q] \in disk
        /\ file_path[q] # file_path[r]

\* C18: a request whose staging succeeded and which has ended, by a
\* response or by its task being dropped, has had the deletion of its staged
\* file attempted.
C18_DeletionOnEveryExitPath ==
    \A r \in Requests :
        save_result[r].kind = "ok" /\ pc[r] \in {"done", "aborted", "panicked"}
        => Len(removed[r]) = 1

\* the requests that are in flight: started and not yet ended
InFlight == {r \in Requests : pc[r] \notin {"start", "done", "aborted", "panicked"}}

\* C19: the free permits plus the requests holding a permit are always
\* max_concurrent_uploads; the free count stays within 0..max_concurrent_uploads;
\* and with no request in flight all permits are free.
C19_PermitConservation ==
    /\ permits + Cardinality({r \in Requests : held[r]}) = max_concurrent_uploads
    /\ permits \in 0..max_concurrent_uploads
    /\ InFlight = {} => permits = max_concurrent_uploads

C19_Witness ==
    /\ permits = max_concurrent_uploads - 1
    /\ \E r \in Requests : held[r]
    /\ \E r \in Requests : pc[r] = "done" /\ acquires[r] = 1 /\ releases[r] = 1

\* C20: a request whose task was dropped holds no permit and has given back
\* every permit it acquired, and once every request has ended, by a response,
\* by being dropped or by a panic, all max_concurrent_uploads permits are free.
C20_AbortReturnsPermit ==
    /\ \A r \in Requests :
          pc[r] = "aborted" => ~held[r] /\ releases[r] = acquires[r]
    /\ (\A r \in Requests : pc[r] \in {"done", "aborted", "panicked"})
          => permits = max_concurrent_uploads

C20_Witness ==
    /\ \A r \in Requests : pc[r] \in {"done", "aborted", "panicked"}
    /\ \E r \in Requests :
          pc[r] = "aborted" /\ acquires[r] = 1 /\ releases[r] = 1 /\ response[r] = NoResponse
    /\ permits = max_concurrent_uploads

====
